---- MODULE Spec2Model ----
(***************************************************************************)
(* Model of sublack/blacker.py: the result cache of class Black            *)
(* (is_cached, add_to_cache) over the bytes of the cache file, and the     *)
(* per-invocation orchestration of Black.__call__ / Black.finalize.        *)
(*                                                                         *)
(* Text is a sequence of one-character strings, so that offsets into the   *)
(* cache file are real character offsets.                                  *)
(***************************************************************************)
EXTENDS Integers, Sequences, FiniteSets, TLC

\* ------------------------------------------------------------------------
\* Text helpers: str(int), int(str), str(list), str.split, str.splitlines
\* ------------------------------------------------------------------------

NL == "\n"

DigitChars == <<"0", "1", "2", "3", "4", "5", "6", "7", "8", "9">>

DigitSet == {DigitChars[i] : i \in 1..10}

DigitVal(ch) == (CHOOSE i \in 1..10 : DigitChars[i] = ch) - 1

RECURSIVE NatStr(_)
NatStr(n) ==
    IF n < 10 THEN <<DigitChars[n + 1]>>
    ELSE NatStr(n \div 10) \o <<DigitChars[(n % 10) + 1]>>

\* str(i) of a Python int
IntStr(i) == IF i < 0 THEN <<"-">> \o NatStr(0 - i) ELSE NatStr(i)

\* the text int() accepts: an optional sign followed by one or more digits
IsIntLit(s) ==
    LET body == IF s # <<>> /\ s[1] \in {"-", "+"} THEN Tail(s) ELSE s
    IN  /\ body # <<>>
        /\ \A i \in 1..Len(body) : body[i] \in DigitSet

RECURSIVE NatVal(_)
NatVal(s) ==
    IF s = <<>> THEN 0
    ELSE 10 * NatVal(SubSeq(s, 1, Len(s) - 1)) + DigitVal(s[Len(s)])

\* int(s) for a text that IsIntLit accepts
IntVal(s) ==
    IF s[1] = "-" THEN 0 - NatVal(Tail(s))
    ELSE IF s[1] = "+" THEN NatVal(Tail(s))
    ELSE NatVal(s)

\* repr() of a str token (tokens hold no quote or backslash)
TokenRepr(tok) == <<"'">> \o tok \o <<"'">>

RECURSIVE ListBody(_)
ListBody(toks) ==
    IF toks = <<>> THEN <<>>
    ELSE IF Len(toks) = 1 THEN TokenRepr(toks[1])
    ELSE TokenRepr(toks[1]) \o <<",", " ">> \o ListBody(Tail(toks))

\* str(command): a command is a list of tokens, or already a str
Str(command) ==
    IF command.kind = "list" THEN <<"[">> \o ListBody(command.toks) \o <<"]">>
    ELSE command.text

SEP == <<"|", "|", "|">>

SepAt(s) == {i \in 1..(Len(s) - 2) : s[i] = "|" /\ s[i + 1] = "|" /\ s[i + 2] = "|"}

SetMin(S) == CHOOSE x \in S : \A y \in S : x <= y

SetMax(S) == CHOOSE x \in S : \A y \in S : x >= y

\* line.split("|||"): cut at the leftmost occurrence, go on after it
RECURSIVE split(_)
split(s) ==
    LET at == SepAt(s)
    IN  IF at = {} THEN <<s>>
        ELSE LET i == SetMin(at)
             IN  <<SubSeq(s, 1, i - 1)>> \o split(SubSeq(s, i + 3, Len(s)))

\* the pieces of s[lo..hi] between the newlines nls (all of them within
\* lo..hi), cut first at the newline next to the middle
RECURSIVE Pieces(_, _, _, _)
Pieces(s, lo, hi, nls) ==
    IF nls = {} THEN <<SubSeq(s, lo, hi)>>
    ELSE LET upper == {i \in nls : 2 * i >= lo + hi}
             m == IF upper # {} THEN SetMin(upper) ELSE SetMax(nls)
         IN  Pieces(s, lo, m - 1, {i \in nls : i < m})
                 \o Pieces(s, m + 1, hi, {i \in nls : i > m})

\* text.splitlines(): the pieces between the newlines, without an empty
\* piece after the last newline
splitlines(s) ==
    LET pieces == Pieces(s, 1, Len(s), {i \in 1..Len(s) : s[i] = NL})
    IN  IF pieces[Len(pieces)] = <<>> THEN SubSeq(pieces, 1, Len(pieces) - 1)
        ELSE pieces

RECURSIVE JoinRange(_, _, _)
JoinRange(lines, lo, hi) ==
    IF lo = hi THEN lines[lo]
    ELSE LET mid == (lo + hi) \div 2
         IN  JoinRange(lines, lo, mid) \o <<NL>> \o JoinRange(lines, mid + 1, hi)

\* "\n".join(lines)
JoinLines(lines) == IF lines = <<>> THEN <<>> ELSE JoinRange(lines, 1, Len(lines))

\* ------------------------------------------------------------------------
\* Values: contents, fingerprints, commands
\* ------------------------------------------------------------------------

\* Texts are numbered.  T.empty is "", T.asciiB has the same fingerprint as
\* T.asciiA (a collision), T.nonAscii holds a character outside ASCII, and
\* T.diagnostic and T.diff are a formatter's error text and diff text,
\* T.notRunning is "blackd not running on port P", T.requestFailed is the
\* text of another exception of the POST, and the texts after FillBase are
\* the files a user formats over time.
T == [empty |-> 0, asciiA |-> 1, asciiB |-> 2, nonAscii |-> 3,
      diagnostic |-> 4, diff |-> 5, notRunning |-> 6, requestFailed |-> 7]

FillBase == 10

\* the cap of add_to_cache: "if len(old) > 250"
CacheLimit == 250

\* number of filler entries the workload records before the tail phase
FillTarget == CacheLimit + 1

Bytes(t) == [text |-> t, form |-> "bytes"]

Text(t) == [text |-> t, form |-> "str"]

\* content.encode(encoding) and out.decode(encoding)
Encode(s) == [text |-> s.text, form |-> "bytes"]

Decode(b) == [text |-> b.text, form |-> "str"]

LongHash == 1000000000

\* hash(content): a 64-bit fingerprint, here a table.  hash(b"") = hash("")
\* = 0; a str and its encoding hash alike only when the text is ASCII; two
\* different texts may collide.
hash(content) ==
    LET t == content.text
    IN  IF t = T.empty THEN 0
        ELSE IF t \in {T.asciiA, T.asciiB} THEN 7
        ELSE IF t = T.nonAscii THEN (IF content.form = "bytes" THEN 0 - 42 ELSE 0 - 35)
        ELSE IF t \in {FillBase + 1, FillBase + 2} THEN 0 - (LongHash + t)
        ELSE t

List(toks) == [kind |-> "list", toks |-> toks]

\* the commands of the workload: ['b'], ['b', '-'] and the str "['b']"
CmdBlack == List(<< <<"b">> >>)

CmdStdin == List(<< <<"b">>, <<"-">> >>)

CmdText == [kind |-> "str", text |-> <<"[", "'", "b", "'", "]">>]

Commands == {CmdBlack, CmdStdin, CmdText}

SmallContents == {Bytes(T.empty), Bytes(T.asciiA), Bytes(T.asciiB), Bytes(T.nonAscii)}

\* the i-th filler pair of the workload
FillerContent(i) == Bytes(FillBase + i)

FillerCommand == CmdBlack

\* ------------------------------------------------------------------------
\* The result cache (Black.is_cached, Black.add_to_cache)
\* ------------------------------------------------------------------------

\* one pass of the loop body of is_cached up to the comparison:
\* content_f, cmd_f = line.split("|||"); int(content_f)
ParseLine(line) ==
    LET parts == split(line)
    IN  IF Len(parts) # 2 THEN [ok |-> FALSE]
        ELSE IF ~IsIntLit(parts[1]) THEN [ok |-> FALSE]
        ELSE [ok |-> TRUE, h |-> IntVal(parts[1]), cmd |-> parts[2]]

\* the lines of the file as is_cached reads them
Entries(file) ==
    LET lines == splitlines(file)
    IN  [i \in 1..Len(lines) |-> ParseLine(lines[i])]

\* the loop of is_cached, mutated: the command of a line is not compared
ScanEntries_AnyCommand(entries, h_content, cmd) ==
    LET bad == {i \in 1..Len(entries) : ~entries[i].ok}
        hit == {i \in 1..Len(entries) : entries[i].ok /\ entries[i].h = h_content}
    IN  IF bad \cup hit = {} THEN "False"
        ELSE IF SetMin(bad \cup hit) \in bad THEN "ValueError"
        ELSE "True"

\* the loop of is_cached: it ends at the first line that does not unpack
\* (the ValueError leaves is_cached) or that matches (return True)
ScanEntries(entries, h_content, cmd) ==
    LET bad == {i \in 1..Len(entries) : ~entries[i].ok}
        hit == {i \in 1..Len(entries) :
                    /\ entries[i].ok
                    /\ entries[i].h = h_content
                    /\ entries[i].cmd = cmd}
    IN  IF bad \cup hit = {} THEN "False"
        ELSE IF SetMin(bad \cup hit) \in bad THEN "ValueError"
        ELSE "True"

\* is_cached(content, command) on the file text: "True", "False", or
\* "ValueError" when a line does not unpack into fingerprint and command
is_cached(file, content, command) ==
    ScanEntries(Entries(file), hash(content), Str(command))

\* the line add_to_cache writes for a pair
EntryLine(content, command) == IntStr(hash(content)) \o SEP \o Str(command)

\* cache.seek(0); cache.write(new_file): the file is overwritten from offset
\* 0 and keeps whatever it held beyond the end of the new text
WriteAt0(file, new_file) ==
    IF Len(new_file) >= Len(file) THEN new_file
    ELSE new_file \o SubSeq(file, Len(new_file) + 1, Len(file))

\* old.pop() when len(old) > 250
PopOldest(old) == IF Len(old) > CacheLimit THEN SubSeq(old, 1, Len(old) - 1) ELSE old

\* add_to_cache, mutated: the entry is written without asking is_cached
add_to_cache_Unguarded(file, content, command) ==
    LET old == PopOldest(splitlines(file))
        new == <<EntryLine(content, command)>>
    IN  [file |-> WriteAt0(file, JoinLines(new \o old)), ret |-> "True"]

\* add_to_cache(content, command): the file afterwards and the value
\* returned ("None", "True", or the "ValueError" is_cached raised)
add_to_cache(file, content, command) ==
    LET cached == is_cached(file, content, command)
    IN  IF cached = "True" THEN [file |-> file, ret |-> "None"]
        ELSE IF cached = "ValueError" THEN [file |-> file, ret |-> "ValueError"]
        ELSE LET old == PopOldest(splitlines(file))
                 new == <<EntryLine(content, command)>>
             IN  [file |-> WriteAt0(file, JoinLines(new \o old)), ret |-> "True"]

\* ------------------------------------------------------------------------
\* State
\* ------------------------------------------------------------------------

VARIABLES
    formatted_cache,  \* the text of the cache file (self.formatted_cache)
    call,             \* the last call of add_to_cache / is_cached and its result
    recorded,         \* history: the pairs add_to_cache was called with
    inserted,         \* history: how many add_to_cache calls wrote an entry
    fills,            \* workload: filler pairs recorded so far
    frees,            \* workload: free calls made in the current phase
    pc,               \* where the invocation of Black.__call__ stands
    inv,              \* the locals of the invocation
    settings,         \* black_use_blackd, pre_commit_config
    writers,          \* each writer's position inside add_to_cache
    view_text,        \* the text of the buffer (self.view)
    view_state,       \* the folded regions and the selection of the view
    status,           \* the status shown under consts.STATUS_KEY
    diff_views,       \* the views create_diff_view opened
    deferred,         \* callbacks queued with sublime.set_timeout_async
    dialogs,          \* sublime.error_message / message_dialog texts shown
    raised,           \* the exception that ended the last invocation, if any
    blackd_started,   \* what utils.has_blackd_started() returns
    budget            \* workload: invocations, edits and daemon changes left

cacheVars == <<formatted_cache, call, recorded, inserted, fills, frees>>

orchVars == <<pc, inv, settings, writers, view_text, view_state, status, diff_views, deferred,
              dialogs, raised, blackd_started, budget>>

vars == <<cacheVars, orchVars>>

\* bounds of the workload
MaxFree == 2

MaxTail == 2

NoCall == [op |-> "none"]

\* a view on a text with one folded region (a function body) and the cursor
\* in one place
FoldedView(t) == [folds |-> {[node |-> "def", text |-> t]}, sel |-> <<"cursor">>]

\* view.replace(edit, self.all, ...): the folds of the replaced region are
\* gone and the selection is moved to the end of the new text
Replaced(state) == [folds |-> {}, sel |-> <<"end">>]

\* the processes that may write the cache file
Writers == {1, 2}

\* a writer that is not inside add_to_cache
IdleWriter == [at |-> "idle", content |-> Bytes(T.empty), command |-> List(<<>>),
               old |-> <<>>, calls |-> 0]

NoWriters == [w \in Writers |-> IdleWriter]

NoResult == [none |-> TRUE]

\* no response of the daemon yet
NoResponse == [status_code |-> 0, content |-> Bytes(T.empty)]

\* the locals of __call__ before the first invocation
NoInvocation ==
    [extra |-> <<>>, content |-> Bytes(T.empty), command |-> List(<<>>),
     use_blackd |-> FALSE, cached |-> "none", posts |-> 0, runs |-> 0,
     request |-> "none", response |-> NoResponse,
     result |-> NoResult, before |-> T.empty]

InitCache ==
    /\ formatted_cache = <<>>
    /\ call = NoCall
    /\ recorded = {}
    /\ inserted = 0
    /\ fills = 0
    /\ frees = 0
    /\ pc = "idle"
    /\ inv = NoInvocation
    /\ settings = [black_use_blackd |-> FALSE, pre_commit_config |-> FALSE]
    /\ writers = NoWriters
    /\ view_text = T.asciiA
    /\ view_state = FoldedView(T.asciiA)
    /\ status = <<>>
    /\ diff_views = <<>>
    /\ deferred = <<>>
    /\ dialogs = <<>>
    /\ raised = "none"
    /\ blackd_started = FALSE
    /\ budget = [invocations |-> 0, edits |-> 0, toggles |-> 0]

\* ------------------------------------------------------------------------
\* Direct calls of the cache (as tests/test_blacker.py TestCache makes them)
\* ------------------------------------------------------------------------

\* black.add_to_cache(content, command)
AddToCache(content, command) ==
    LET r == add_to_cache(formatted_cache, content, command)
    IN  /\ formatted_cache' = r.file
        /\ call' = [op |-> "add_to_cache", content |-> content,
                    command |-> command, ret |-> r.ret]
        /\ recorded' = recorded \cup {<<content, command>>}
        /\ inserted' = IF r.ret = "True" THEN inserted + 1 ELSE inserted

\* black.is_cached(content, command)
IsCached(content, command) ==
    /\ call' = [op |-> "is_cached", content |-> content, command |-> command,
                ret |-> is_cached(formatted_cache, content, command)]
    /\ UNCHANGED <<formatted_cache, recorded, inserted>>

\* The workload: up to MaxFree calls with any small pair on the empty cache,
\* or the filler pairs one after the other until FillTarget entries were
\* recorded and then up to MaxTail calls with any small pair.
FreeContents ==
    IF fills = 0 THEN SmallContents ELSE {Bytes(T.empty), Bytes(T.nonAscii)}

FreeCommands == IF fills = 0 THEN Commands ELSE {CmdBlack, CmdStdin}

FreePhase ==
    \/ fills = 0 /\ frees < MaxFree
    \/ fills = FillTarget /\ frees < MaxTail

FreeAdd ==
    /\ FreePhase
    /\ \E content \in FreeContents, command \in FreeCommands :
           AddToCache(content, command)
    /\ frees' = frees + 1
    /\ UNCHANGED <<fills, orchVars>>

FillAdd ==
    /\ frees = 0
    /\ fills < FillTarget
    /\ AddToCache(FillerContent(fills + 1), FillerCommand)
    /\ fills' = fills + 1
    /\ UNCHANGED <<frees, orchVars>>

Lookup ==
    /\ fills = 0
    /\ call.op # "is_cached"
    /\ \E content \in SmallContents, command \in Commands :
           IsCached(content, command)
    /\ UNCHANGED <<fills, frees, orchVars>>

NextCache == FreeAdd \/ FillAdd \/ Lookup

SpecCache == InitCache /\ [][NextCache]_vars

\* ------------------------------------------------------------------------
\* Claims about the cache, checked under SpecCache
\* ------------------------------------------------------------------------

\* the pairs the cache claims are stated for
ClaimPairs == (SmallContents \X Commands) \cup recorded

\* some recorded pair is equal to (content, command): same content, and a
\* command with the same string representation
RecordedEqual(content, command) ==
    \E p \in recorded : p[1] = content /\ Str(p[2]) = Str(command)

\* some recorded pair has the fingerprint of content and the string
\* representation of command
RecordedKey(content, command) ==
    \E p \in recorded : hash(p[1]) = hash(content) /\ Str(p[2]) = Str(command)

\* the step is a call of add_to_cache; its arguments and result are in call'
AddStep == call'.op = "add_to_cache" /\ fills' + frees' # fills + frees

\* C1 as stated: while at most CacheLimit entries were inserted,
\* is_cached(C, K) is true exactly when add_to_cache was called with an
\* equal (C, K).
C1_Original ==
    inserted <= CacheLimit =>
        LET entries == Entries(formatted_cache)
        IN  \A p \in ClaimPairs :
                ScanEntries(entries, hash(p[1]), Str(p[2])) =
                    (IF RecordedEqual(p[1], p[2]) THEN "True" ELSE "False")

\* C1 amended: while at most CacheLimit entries were inserted, is_cached(C, K)
\* is true exactly when add_to_cache was called with a pair that has the
\* fingerprint of C and the string representation of K (false before, true
\* from then on, whatever other pairs are added).
C1_LookupFollowsRecord ==
    inserted <= CacheLimit =>
        LET entries == Entries(formatted_cache)
        IN  \A p \in ClaimPairs :
                ScanEntries(entries, hash(p[1]), Str(p[2])) =
                    (IF RecordedKey(p[1], p[2]) THEN "True" ELSE "False")

\* C1 witness: CacheLimit entries were inserted, and the first pair recorded
\* and the last one are both found, while an unrecorded pair is not.
C1_Witness ==
    /\ inserted = CacheLimit
    /\ fills = CacheLimit
    /\ is_cached(formatted_cache, FillerContent(1), FillerCommand) = "True"
    /\ is_cached(formatted_cache, FillerContent(CacheLimit), FillerCommand) = "True"
    /\ is_cached(formatted_cache, Bytes(T.empty), FillerCommand) = "False"

\* C2 as stated: the cache file never holds more than CacheLimit (250)
\* entries.
C2_Original == Len(splitlines(formatted_cache)) <= CacheLimit

\* C3 as stated: is_cached(C, K2) is false for every pair such that no pair
\* with the fingerprint of C and the string representation of K2 was recorded.
C3_Original ==
    LET entries == Entries(formatted_cache)
    IN  \A p \in ClaimPairs :
            ~RecordedKey(p[1], p[2]) =>
                ScanEntries(entries, hash(p[1]), Str(p[2])) = "False"

\* C4: a call of add_to_cache for a pair that is_cached finds leaves the file
\* as it was and returns None; True is returned only when the new entry was
\* written as the first line; a second call with the same pair changes
\* nothing.
C4_NoOpWhenCached ==
    [][AddStep =>
        LET content == call'.content
            command == call'.command
        IN  /\ is_cached(formatted_cache, content, command) = "True" =>
                /\ formatted_cache' = formatted_cache
                /\ call'.ret = "None"
            /\ call'.ret = "True" =>
                /\ formatted_cache' # formatted_cache
                /\ is_cached(formatted_cache, content, command) = "False"
                /\ splitlines(formatted_cache')[1] = EntryLine(content, command)
            /\ add_to_cache(formatted_cache', content, command).file = formatted_cache'
            /\ add_to_cache(formatted_cache', content, command).ret # "True"
    ]_vars

\* C4 witness: add_to_cache was called for a pair that was already in the
\* file and returned None.
C4_Witness ==
    /\ call.op = "add_to_cache"
    /\ call.ret = "None"
    /\ inserted >= 1
    /\ is_cached(formatted_cache, call.content, call.command) = "True"

\* C5 as stated: every add_to_cache that writes puts the new entry on the
\* first line and keeps the lines it retains unchanged and in order after it,
\* dropping at most the last one.
C5_Original ==
    [][(AddStep /\ call'.ret = "True") =>
        LET old == splitlines(formatted_cache)
            new == splitlines(formatted_cache')
        IN  /\ new[1] = EntryLine(call'.content, call'.command)
            /\ \/ SubSeq(new, 2, Len(new)) = old
               \/ SubSeq(new, 2, Len(new)) = SubSeq(old, 1, Len(old) - 1)
    ]_vars

\* C6 as stated: when the file holds more than CacheLimit entries,
\* add_to_cache of a pair that is not in the file removes the last entry and
\* prepends the new one: the lines are the new entry followed by all old lines
\* but the last, so the count is unchanged.
C6_Original ==
    [][(/\ AddStep
        /\ Len(splitlines(formatted_cache)) > CacheLimit
        /\ is_cached(formatted_cache, call'.content, call'.command) # "True") =>
        LET old == splitlines(formatted_cache)
            new == splitlines(formatted_cache')
        IN  /\ Len(new) = Len(old)
            /\ new = <<EntryLine(call'.content, call'.command)>>
                         \o SubSeq(old, 1, Len(old) - 1)
    ]_vars

\* ------------------------------------------------------------------------
\* The orchestrator (Black.__call__, Black.finalize) and its collaborators
\* ------------------------------------------------------------------------

\* bounds of the workload of invocations
MaxInvocations == 2

MaxEdits == 1

MaxToggles == 1

\* the texts a buffer holds and a formatter returns
BufferTexts == {T.asciiA, T.asciiB, T.nonAscii}

DiffFlag == <<"-", "-", "d", "i", "f", "f">>

\* the extra arguments of an invocation: [] (black_file) or ["--diff"]
Extras == {<<>>, <<DiffFlag>>}

\* "--diff" in extra
InDiffMode(extra) == \E i \in 1..Len(extra) : extra[i] = DiffFlag

\* the status texts of consts, as words
ALREADY_FORMATTED_MESSAGE == <<"already", "formatted">>

ALREADY_FORMATTED_MESSAGE_CACHE == <<"already", "formatted", "(cached)">>

REFORMATTED_MESSAGE == <<"reformatted">>

\* the diagnostics of the transports, as words
MsgReformatted == <<"1", "file", "reformatted">>

MsgUnchanged == <<"1", "file", "left", "unchanged">>

MsgUnknownError == <<"unknown", "error">>

MsgNoValidResponse == <<"no", "valid", "response">>

MsgCannotFormat == <<"error:", "cannot", "format", "-", "\r\n">>

MsgUnchangedFailed == <<"1", "file", "left", "unchanged,", "unchanged", "1", "file", "failed">>

\* err.decode(encoding).replace("\r\n", "\n").replace("\r", "\n")
ErrorMessage(err) == [i \in 1..Len(err) |-> IF err[i] \in {"\r\n", "\r"} THEN NL ELSE err[i]]

\* "unchanged" in error_message
SaysUnchanged(error_message) ==
    \E i \in 1..Len(error_message) : error_message[i] = "unchanged"

Result(returncode, out, err) ==
    [none |-> FALSE, returncode |-> returncode, out |-> out, err |-> err]

\* utils.get_full_black_command(view, use_blackd, extra): the resolved
\* formatter command followed by the extra arguments; the empty command when
\* the formatter executable is unset and none can be resolved (the value the
\* guard "if not black_command" of get_black_command, line 187, is about)
get_full_black_command(config, use_blackd, extra) ==
    IF config.black_command = "" THEN List(<<>>)
    ELSE List(<< <<"b">> >> \o extra)

\* the settings of the view: the daemon enabled or not, a pre-commit
\* configuration found or not, the formatter executable set or not
Configurations ==
    {[black_use_blackd |-> b, pre_commit_config |-> FALSE, black_command |-> c] :
         b \in BOOLEAN, c \in {"black", ""}}
        \cup {[black_use_blackd |-> FALSE, pre_commit_config |-> TRUE,
                black_command |-> "black"]}

\* what the formatter process may answer for content: unchanged, reformatted
\* to some text (or a diff of it), or a failure
ProcessResults(content, extra) ==
    {Result(0, content, MsgUnchanged)}
        \cup {Result(0, Bytes(t), MsgReformatted) :
                  t \in IF InDiffMode(extra) THEN {T.diff} ELSE BufferTexts}
        \cup {Result(123, Bytes(T.empty), MsgCannotFormat),
              Result(123, Bytes(T.empty), MsgUnchangedFailed)}

\* the responses of the daemon: status code and body
Responses ==
    {[status_code |-> 200, content |-> Bytes(t)] : t \in BufferTexts}
        \cup {[status_code |-> 204, content |-> Bytes(T.empty)]}
        \cup {[status_code |-> c, content |-> Bytes(T.diagnostic)] :
                  c \in {201, 400, 404, 500, 503}}

\* Blackd.process_response, mutated: status 500 is not in the list of line 111
process_response_Only400(response) ==
    IF response.status_code = 200 THEN Result(0, response.content, MsgReformatted)
    ELSE IF response.status_code = 204 THEN Result(0, response.content, MsgUnchanged)
    ELSE IF response.status_code \in {400}
        THEN Result(0 - 1, response.content, MsgUnknownError)
    ELSE Result(0 - 1, response.content, MsgNoValidResponse)

\* Blackd.process_response
process_response(response) ==
    IF response.status_code = 200 THEN Result(0, response.content, MsgReformatted)
    ELSE IF response.status_code = 204 THEN Result(0, response.content, MsgUnchanged)
    ELSE IF response.status_code \in {400, 500}
        THEN Result(0 - 1, response.content, MsgUnknownError)
    ELSE Result(0 - 1, response.content, MsgNoValidResponse)

\* Blackd.process_errors(msg), mutated: the synthetic response has status 204
process_errors_NoContent(msg) == [status_code |-> 204, content |-> Encode(Text(msg))]

\* Blackd.process_errors(msg): a response of status 500 whose body is
\* msg.encode()
process_errors(msg) == [status_code |-> 500, content |-> Encode(Text(msg))]

Init ==
    /\ formatted_cache = <<>>
    /\ call = NoCall
    /\ recorded = {}
    /\ inserted = 0
    /\ fills = 0
    /\ frees = 0
    /\ pc = "idle"
    /\ inv = NoInvocation
    /\ settings \in Configurations
    /\ writers = NoWriters
    /\ view_text \in BufferTexts
    /\ view_state = FoldedView(view_text)
    /\ status = <<>>
    /\ diff_views = <<>>
    /\ deferred = <<>>
    /\ dialogs = <<>>
    /\ raised = "none"
    /\ blackd_started \in BOOLEAN
    /\ budget = [invocations |-> 0, edits |-> 0, toggles |-> 0]

\* the transport of an invocation (line 411), mutated: diff mode is not
\* looked at
UseBlackd_IgnoresDiff(config, extra) == config.black_use_blackd

\* the transport of an invocation (line 411):
\* settings["black_use_blackd"] and "--diff" not in extra
UseBlackd(config, extra) == config.black_use_blackd /\ ~InDiffMode(extra)

\* where __call__ goes after its readiness check (lines 420-427), mutated: the
\* daemon adapter is called whatever the check says
AfterReadinessCheck_Always(started) == "blackd"

\* where __call__ goes after its readiness check (lines 420-427)
AfterReadinessCheck(started) == IF started THEN "blackd" ELSE "idle"

\* where __call__ goes after the cache check (lines 416-431), mutated: the
\* result of the check is ignored
AfterLookup_Ignored(cached, use_blackd) ==
    IF use_blackd THEN "check_blackd" ELSE "run_black"

\* where __call__ goes after the cache check (lines 416-431)
AfterLookup(cached, use_blackd) ==
    IF cached # "False" THEN "idle"
    ELSE IF use_blackd THEN "check_blackd"
    ELSE "run_black"

\* the branch of finalize (lines 327-341), mutated: "unchanged" is looked
\* for before the return code
FinalizeBranch_UnchangedFirst(returncode, error_message, extra) ==
    IF SaysUnchanged(error_message) THEN "unchanged"
    ELSE IF returncode # 0 THEN "failure"
    ELSE IF InDiffMode(extra) THEN "diff"
    ELSE "standard"

\* the branch of finalize (lines 327-341), mutated: a diff result is treated
\* like an unchanged one
FinalizeBranch_DiffRecorded(returncode, error_message, extra) ==
    IF returncode # 0 THEN "failure"
    ELSE IF SaysUnchanged(error_message) \/ InDiffMode(extra) THEN "unchanged"
    ELSE "standard"

\* the branch of finalize (lines 327-341)
FinalizeBranch(returncode, error_message, extra) ==
    IF returncode # 0 THEN "failure"
    ELSE IF SaysUnchanged(error_message) THEN "unchanged"
    ELSE IF InDiffMode(extra) THEN "diff"
    ELSE "standard"

\* the deferred call of line 360, mutated: it records the content that was
\* sent to the formatter
DeferredEntry_Original(content, new_content, command) ==
    [content |-> content, command |-> command]

\* the deferred call of line 360: add_to_cache(new_content, command)
DeferredEntry(content, new_content, command) ==
    [content |-> new_content, command |-> command]

\* create_diff_view (lines 271-278), mutated: the new view is not marked
\* scratch
create_diff_view_NotScratch(views, content) ==
    Append(views, [scratch |-> FALSE, text |-> Decode(content).text])

\* create_diff_view (lines 271-278): a new view, marked scratch, that holds
\* the decoded content
create_diff_view(views, content) ==
    Append(views, [scratch |-> TRUE, text |-> Decode(content).text])

\* a call of add_to_cache from finalize or from the deferred callback
WriteCache(content, command) ==
    LET r == add_to_cache(formatted_cache, content, command)
    IN  /\ formatted_cache' = r.file
        /\ call' = [op |-> "add_to_cache", content |-> content,
                    command |-> command, ret |-> r.ret]
        /\ recorded' = recorded \cup {<<content, command>>}
        /\ inserted' = IF r.ret = "True" THEN inserted + 1 ELSE inserted

CacheUntouched == UNCHANGED <<formatted_cache, call, recorded, inserted>>

\* __call__ up to the cache check (lines 398-418), without pre-commit
Call ==
    /\ pc = "idle"
    /\ budget.invocations < MaxInvocations
    /\ ~settings.pre_commit_config
    /\ \E extra \in Extras :
        LET content == Encode(Text(view_text))
            use_blackd == UseBlackd(settings, extra)
            command == get_full_black_command(settings, use_blackd, extra)
            cached == is_cached(formatted_cache, content, command)
        IN  /\ inv' = [extra |-> extra, content |-> content, command |-> command,
                       use_blackd |-> use_blackd, cached |-> cached, posts |-> 0,
                       runs |-> 0, request |-> "none", response |-> NoResponse,
                       result |-> NoResult, before |-> view_text]
            /\ status' = IF cached = "True" THEN ALREADY_FORMATTED_MESSAGE_CACHE
                         ELSE status
            /\ raised' = IF cached = "ValueError" THEN "ValueError" ELSE "none"
            /\ pc' = AfterLookup(cached, use_blackd)
    /\ dialogs' = <<>>
    /\ budget' = [budget EXCEPT !.invocations = @ + 1]
    /\ CacheUntouched
    /\ UNCHANGED <<fills, frees, settings, writers, view_text, view_state, diff_views, deferred, blackd_started>>

\* __call__ with a pre-commit configuration (lines 406-409) and
\* format_via_precommit: the buffer is replaced by what pre-commit left in
\* the temporary file
CallPrecommit ==
    /\ pc = "idle"
    /\ budget.invocations < MaxInvocations
    /\ settings.pre_commit_config
    /\ \E t \in BufferTexts : view_text' = t
    /\ view_state' = Replaced(view_state)
    /\ \E extra \in Extras :
           inv' = [NoInvocation EXCEPT !.extra = extra,
                                       !.content = Encode(Text(view_text)),
                                       !.before = view_text]
    /\ raised' = "none"
    /\ dialogs' = <<>>
    /\ budget' = [budget EXCEPT !.invocations = @ + 1]
    /\ CacheUntouched
    /\ UNCHANGED <<fills, frees, pc, settings, writers, status, diff_views, deferred, blackd_started>>

\* __call__ lines 420-424: the orchestrator's own readiness check
CheckBlackd ==
    /\ pc = "check_blackd"
    /\ pc' = AfterReadinessCheck(blackd_started)
    /\ dialogs' = IF blackd_started THEN dialogs
                  ELSE Append(dialogs, "Black server has not finished initializing!")
    /\ CacheUntouched
    /\ UNCHANGED <<fills, frees, inv, settings, writers, view_text, view_state, status, diff_views,
                   deferred, raised, blackd_started, budget>>

\* Blackd.__call__ (lines 123-146)
BlackdCall ==
    /\ pc = "blackd"
    /\ pc' = "finalize"
    /\ IF ~blackd_started
       THEN /\ inv' = [inv EXCEPT !.result = NoResult]
            /\ UNCHANGED dialogs
       ELSE \/ \E response \in Responses :
                 /\ inv' = [inv EXCEPT !.posts = @ + 1,
                                       !.request = "ok",
                                       !.response = response,
                                       !.result = process_response(response)]
                 /\ UNCHANGED dialogs
            \/ \* requests.ConnectionError
               LET response == process_errors(T.notRunning)
               IN  /\ inv' = [inv EXCEPT !.posts = @ + 1,
                                         !.request = "ConnectionError",
                                         !.response = response,
                                         !.result = process_response(response)]
                   /\ dialogs' = Append(dialogs,
                          "blackd not running on port, you can start it with blackd_start command")
            \/ \* any other exception of the POST
               LET response == process_errors(T.requestFailed)
               IN  /\ inv' = [inv EXCEPT !.posts = @ + 1,
                                         !.request = "Exception",
                                         !.response = response,
                                         !.result = process_response(response)]
                   /\ UNCHANGED dialogs
    /\ CacheUntouched
    /\ UNCHANGED <<fills, frees, settings, writers, view_text, view_state, status, diff_views, deferred,
                   raised, blackd_started, budget>>

\* where __call__ goes after run_black (lines 238-269, 431-434), mutated: the
\* OSError of the spawn is swallowed
AfterRunBlack_Swallowed(spawned) == "finalize"

\* where __call__ goes after run_black (lines 238-269, 431-434), mutated: a
\* spawn that failed is tried again
AfterRunBlack_Retry(spawned) == IF spawned THEN "finalize" ELSE "run_black"

\* where __call__ goes after run_black (lines 238-269, 431-434): to finalize
\* with the result, or out of the invocation with the exception
AfterRunBlack(spawned) == IF spawned THEN "finalize" ELSE "idle"

\* the configuration hint of run_black's except clauses (lines 258-266)
InstallHint == "OSError: You may need to install Black and/or configure 'black_command'"

\* the except OSError clause of run_black (lines 258-266), mutated: the
\* error is raised again without the hint
SpawnErrorShown_Silent(shown) == shown

\* the except OSError clause of run_black (lines 258-266): the hint is shown
\* in an error dialog before OSError is raised
SpawnErrorShown(shown) == Append(shown, InstallHint)

\* run_black (lines 238-269)
RunBlack ==
    /\ pc = "run_black"
    /\ \/ \E r \in ProcessResults(inv.content, inv.extra) :
             /\ inv.command # List(<<>>)
             /\ inv' = [inv EXCEPT !.runs = @ + 1, !.result = r]
             /\ pc' = AfterRunBlack(TRUE)
             /\ UNCHANGED <<dialogs, raised>>
       \/ \* subprocess.run raises OSError: the executable is missing or cannot
          \* be started (with an empty command: where the platform reports it
          \* as an OSError)
          /\ inv' = [inv EXCEPT !.runs = @ + 1]
          /\ dialogs' = SpawnErrorShown(dialogs)
          /\ raised' = "OSError"
          /\ pc' = AfterRunBlack(FALSE)
       \/ \* subprocess.run([]) raises IndexError where the platform takes
          \* args[0] as the executable: no except clause of run_black catches it
          /\ inv.command = List(<<>>)
          /\ inv' = [inv EXCEPT !.runs = @ + 1]
          /\ raised' = "IndexError"
          /\ pc' = AfterRunBlack(FALSE)
          /\ UNCHANGED dialogs
    /\ CacheUntouched
    /\ UNCHANGED <<fills, frees, settings, writers, view_text, view_state, status, diff_views, deferred,
                   blackd_started, budget>>

\* folding.get_ast_index(content): the structural index of a text, or nothing
\* when the text does not parse
get_ast_index(content) ==
    IF content.text = T.nonAscii THEN [built |-> FALSE]
    ELSE [built |-> TRUE, text |-> content.text]

\* folding.refold_all(old, new, view, folded_lines): the folded regions,
\* translated to the nodes of the new index
refold_all(old, new, folded_lines) ==
    {[node |-> f.node, text |-> new.text] : f \in folded_lines}

\* lines 351-354, mutated: only the index of the old text is tested
Refold_OldOnly(old, new, folded_lines) ==
    IF old.built THEN refold_all([built |-> TRUE, text |-> T.empty],
                                 [built |-> TRUE, text |-> T.empty], folded_lines)
    ELSE {}

\* lines 351-354: if old and new: folding.refold_all(...)
Refold(old, new, folded_lines) ==
    IF old.built /\ new.built THEN refold_all(old, new, folded_lines) ELSE {}

\* the view after the standard branch of finalize (lines 343-356): the
\* selection and the folds are taken, the text is replaced, the folds are
\* re-applied and the selection is put back
Reformatted(state, content, out) ==
    LET old_sel == state.sel[1]
        folded_lines == state.folds
        replaced == Replaced(state)
    IN  [folds |-> replaced.folds
                      \cup Refold(get_ast_index(content), get_ast_index(out), folded_lines),
         sel |-> <<old_sel>>]

\* finalize (lines 322-360)
Finalize ==
    /\ pc = "finalize"
    /\ pc' = "idle"
    /\ IF inv.result.none
       THEN \* err is None: err.decode raises AttributeError
            /\ raised' = "AttributeError"
            /\ CacheUntouched
            /\ UNCHANGED <<view_text, view_state, status, diff_views, deferred>>
       ELSE LET error_message == ErrorMessage(inv.result.err)
                branch == FinalizeBranch(inv.result.returncode, error_message, inv.extra)
            IN  IF branch = "failure"
                THEN /\ status' = error_message
                     /\ CacheUntouched
                     /\ UNCHANGED <<view_text, view_state, diff_views, deferred, raised>>
                ELSE IF branch = "unchanged"
                THEN /\ status' = ALREADY_FORMATTED_MESSAGE
                     /\ WriteCache(inv.content, inv.command)
                     /\ raised' = IF call'.ret = "ValueError" THEN "ValueError" ELSE raised
                     /\ UNCHANGED <<view_text, view_state, diff_views, deferred>>
                ELSE IF branch = "diff"
                THEN /\ diff_views' = create_diff_view(diff_views, inv.result.out)
                     /\ CacheUntouched
                     /\ UNCHANGED <<view_text, view_state, status, deferred, raised>>
                ELSE LET new_content == Decode(inv.result.out)
                     IN  /\ view_text' = new_content.text
                         /\ view_state' = Reformatted(view_state, inv.content,
                                                      inv.result.out)
                         /\ status' = REFORMATTED_MESSAGE
                         /\ deferred' = Append(deferred,
                                DeferredEntry(inv.content, new_content, inv.command))
                         /\ CacheUntouched
                         /\ UNCHANGED <<diff_views, raised>>
    /\ UNCHANGED <<fills, frees, inv, settings, writers, dialogs, blackd_started, budget>>

\* the callback of sublime.set_timeout_async (line 360) runs on the async
\* thread: add_to_cache(new_content, command)
DeferredWrite ==
    /\ deferred # <<>>
    /\ WriteCache(Head(deferred).content, Head(deferred).command)
    /\ deferred' = Tail(deferred)
    /\ UNCHANGED <<fills, frees, pc, inv, settings, writers, view_text, view_state, status, diff_views,
                   dialogs, raised, blackd_started, budget>>

\* the user edits the buffer between two invocations
UserEdit ==
    /\ pc = "idle"
    /\ budget.edits < MaxEdits
    /\ \E t \in BufferTexts \ {view_text} : view_text' = t
    /\ budget' = [budget EXCEPT !.edits = @ + 1]
    /\ CacheUntouched
    /\ UNCHANGED <<fills, frees, pc, inv, settings, writers, view_state, status, diff_views, deferred,
                   dialogs, raised, blackd_started>>

\* the daemon becomes ready, or stops
DaemonChange ==
    /\ budget.toggles < MaxToggles
    /\ settings.black_use_blackd
    /\ blackd_started' = ~blackd_started
    /\ budget' = [budget EXCEPT !.toggles = @ + 1]
    /\ CacheUntouched
    /\ UNCHANGED <<fills, frees, pc, inv, settings, writers, view_text, view_state, status, diff_views,
                   deferred, dialogs, raised>>

Next ==
    \/ Call
    \/ CallPrecommit
    \/ CheckBlackd
    \/ BlackdCall
    \/ RunBlack
    \/ Finalize
    \/ DeferredWrite
    \/ UserEdit
    \/ DaemonChange

Spec == Init /\ [][Next]_vars

\* The cache file as FillTarget earlier invocations left it: the filler
\* pairs, the most recent first (SpecCache reaches this file).
FullCache ==
    JoinLines([i \in 1..FillTarget |->
                   EntryLine(FillerContent(FillTarget + 1 - i), FillerCommand)])

FillerPairs == {<<FillerContent(i), FillerCommand>> : i \in 1..FillTarget}

\* a session that starts with the cache file of earlier sessions
InitFull ==
    /\ formatted_cache = FullCache
    /\ call = NoCall
    /\ recorded = FillerPairs
    /\ inserted = FillTarget
    /\ fills = FillTarget
    /\ frees = 0
    /\ pc = "idle"
    /\ inv = NoInvocation
    /\ settings \in {c \in Configurations : c.black_command # ""}
    /\ writers = NoWriters
    /\ view_text \in BufferTexts
    /\ view_state = FoldedView(view_text)
    /\ status = <<>>
    /\ diff_views = <<>>
    /\ deferred = <<>>
    /\ dialogs = <<>>
    /\ raised = "none"
    /\ blackd_started \in BOOLEAN
    /\ budget = [invocations |-> 0, edits |-> 0, toggles |-> 0]

SpecFull == InitFull /\ [][Next]_vars

\* C27 as stated: after any sequence of add_to_cache calls from the empty
\* file, every line of the file is one integer fingerprint and one command
\* representation separated by a single "|||", and no call fails while
\* parsing the file.
C27_Original ==
    LET entries == Entries(formatted_cache)
    IN  /\ \A i \in 1..Len(entries) : entries[i].ok
        /\ call.op # "none" => call.ret # "ValueError"

\* ------------------------------------------------------------------------
\* A single writer, one of whose commands is a string (add_to_cache writes
\* str(command), whatever the command is)
\* ------------------------------------------------------------------------

\* the str "['b']b']", a command given as a string
CmdTail == [kind |-> "str", text |-> <<"[", "'", "b", "'", "]", "b", "'", "]">>]

\* the pairs recorded one after the other: the filler pairs, but the third
\* call records the content of the second call under the string command
TailedContent(i) == IF i = 3 THEN FillerContent(2) ELSE FillerContent(i)

TailedCommand(i) == IF i = 3 THEN CmdTail ELSE FillerCommand

TailedAdd ==
    /\ frees = 0
    /\ fills < FillTarget
    /\ AddToCache(TailedContent(fills + 1), TailedCommand(fills + 1))
    /\ fills' = fills + 1
    /\ UNCHANGED <<frees, orchVars>>

NextTailed == FreeAdd \/ TailedAdd

SpecTailed == InitCache /\ [][NextTailed]_vars

MaxCalls == 2

\* what the writers record: contents with fingerprints of different lengths
RaceContents == {Bytes(T.empty), Bytes(T.asciiA), FillerContent(1)}

RaceCommands == {CmdBlack, CmdStdin}

raceRest == <<fills, frees, pc, inv, settings, view_text, view_state, status, diff_views,
              deferred, dialogs, raised, blackd_started, budget>>

\* add_to_cache line 307: the writer asks is_cached, which opens and reads
\* the file; the call ends here unless the answer is False
WriterCheck(w) ==
    /\ writers[w].at = "idle"
    /\ writers[w].calls < MaxCalls
    /\ \E content \in RaceContents, command \in RaceCommands :
        LET cached == is_cached(formatted_cache, content, command)
        IN  /\ writers' = [writers EXCEPT ![w] =
                   [at |-> IF cached = "False" THEN "open" ELSE "idle",
                    content |-> content, command |-> command, old |-> <<>>,
                    calls |-> @.calls + 1]]
            /\ call' = [op |-> "is_cached", content |-> content,
                        command |-> command, ret |-> cached]
    /\ UNCHANGED <<formatted_cache, recorded, inserted, raceRest>>

\* lines 309-312: open("r+"), old = cache.read().splitlines(), pop when over
\* the cap
WriterRead(w) ==
    /\ writers[w].at = "open"
    /\ writers' = [writers EXCEPT ![w].at = "write",
                                  ![w].old = PopOldest(splitlines(formatted_cache))]
    /\ UNCHANGED <<formatted_cache, call, recorded, inserted, raceRest>>

\* lines 314-320: seek(0), write(new_file); the text reaches the file when
\* the with block closes it
WriterWrite(w) ==
    /\ writers[w].at = "write"
    /\ LET new == <<EntryLine(writers[w].content, writers[w].command)>>
       IN  formatted_cache' = WriteAt0(formatted_cache, JoinLines(new \o writers[w].old))
    /\ call' = [op |-> "add_to_cache", content |-> writers[w].content,
                command |-> writers[w].command, ret |-> "True"]
    /\ recorded' = recorded \cup {<<writers[w].content, writers[w].command>>}
    /\ inserted' = inserted + 1
    /\ writers' = [writers EXCEPT ![w].at = "idle"]
    /\ UNCHANGED raceRest

NextRace == \E w \in Writers : WriterCheck(w) \/ WriterRead(w) \/ WriterWrite(w)

SpecRace == InitCache /\ [][NextRace]_vars

\* the pairs a lookup may ask for: what the writers record
RacePairs == RaceContents \X RaceCommands

\* C26 as stated: with two writers racing in add_to_cache, the only damage is
\* a lost entry: is_cached answers (it does not fail on the file), and it
\* answers true only for a pair that some writer recorded.
C26_Original ==
    LET entries == Entries(formatted_cache)
    IN  \A p \in RacePairs :
            LET found == ScanEntries(entries, hash(p[1]), Str(p[2]))
            IN  /\ found # "ValueError"
                /\ found = "True" => RecordedKey(p[1], p[2])

\* ------------------------------------------------------------------------
\* Claims about the orchestrator
\* ------------------------------------------------------------------------

\* the step is the start of an invocation that is not on the pre-commit path
CallStep ==
    /\ pc = "idle"
    /\ budget'.invocations = budget.invocations + 1
    /\ ~settings.pre_commit_config

\* the step is a transport call: a subprocess run or an HTTP POST
TransportStep == inv'.posts + inv'.runs > inv.posts + inv.runs

\* the step is finalize, on a result that is a (code, output, message) tuple
FinalizeStep == pc = "finalize" /\ pc' = "idle" /\ ~inv.result.none

\* C7: an invocation whose lookup of (extracted content, command) is true
\* sets the "already formatted (cached)" status and ends: no transport, no
\* change of the buffer, no cache write, no deferred write; and a transport is
\* called only in an invocation whose lookup returned false.
C7_CachedSkips ==
    [][/\ (/\ CallStep
           /\ is_cached(formatted_cache, Encode(Text(view_text)), inv'.command) = "True") =>
              /\ status' = ALREADY_FORMATTED_MESSAGE_CACHE
              /\ pc' = "idle"
              /\ inv'.posts = 0 /\ inv'.runs = 0
              /\ view_text' = view_text
              /\ formatted_cache' = formatted_cache
              /\ deferred' = deferred
              /\ diff_views' = diff_views
       /\ TransportStep => inv.cached = "False"
       /\ (pc' # "idle" /\ ~settings.pre_commit_config) => inv'.cached = "False"
    ]_vars

\* C7 witness: the second invocation found its content in the cache and was
\* skipped.
C7_Witness ==
    /\ budget.invocations = 2
    /\ pc = "idle"
    /\ inv.cached = "True"
    /\ inv.posts = 0 /\ inv.runs = 0
    /\ status = ALREADY_FORMATTED_MESSAGE_CACHE

\* C8: finalize on a result with a non-zero return code sets the status to
\* the error message and changes neither the buffer, nor the diff views, nor
\* the cache file, nor the queue of deferred writes.
C8_ErrorLeavesAll ==
    [][(FinalizeStep /\ inv.result.returncode # 0) =>
          /\ status' = ErrorMessage(inv.result.err)
          /\ view_text' = view_text
          /\ diff_views' = diff_views
          /\ formatted_cache' = formatted_cache
          /\ deferred' = deferred
    ]_vars

\* C8 witness: a diff-mode invocation on the process transport ended with a
\* non-zero code and a diagnostic that says "unchanged".
C8_Witness ==
    /\ pc = "idle"
    /\ ~inv.result.none
    /\ inv.result.returncode # 0
    /\ InDiffMode(inv.extra)
    /\ inv.runs = 1
    /\ SaysUnchanged(ErrorMessage(inv.result.err))
    /\ status = ErrorMessage(inv.result.err)
    /\ view_text = inv.before

\* C9 as stated: finalize on a result with return code 0 whose diagnostic
\* contains "unchanged" sets the "already formatted" status, leaves the
\* buffer, and afterwards is_cached(original content, command) is true.
C9_Original ==
    [][(/\ FinalizeStep
        /\ inv.result.returncode = 0
        /\ SaysUnchanged(ErrorMessage(inv.result.err))) =>
          /\ status' = ALREADY_FORMATTED_MESSAGE
          /\ view_text' = view_text
          /\ is_cached(formatted_cache', inv.content, inv.command) = "True"
    ]_vars

DiffModeStep ==
    \/ /\ pc = "idle"
       /\ budget'.invocations = budget.invocations + 1
       /\ InDiffMode(inv'.extra)
    \/ /\ pc # "idle"
       /\ InDiffMode(inv.extra)

\* C11 as stated: no step of an invocation in diff mode changes the text of
\* the buffer, whatever the result and the cache.
C11_Original == [][DiffModeStep => view_text' = view_text]_vars

\* finalize in diff mode on a result with return code 0
DiffSuccessStep ==
    FinalizeStep /\ InDiffMode(inv.extra) /\ inv.result.returncode = 0

\* C12 as stated: finalize in diff mode on a result with return code 0
\* creates one new view, marked scratch, that holds the formatter's output.
C12_Original ==
    [][DiffSuccessStep =>
          diff_views' = Append(diff_views,
              [scratch |-> TRUE, text |-> Decode(inv.result.out).text])
    ]_vars

\* C12 amended: finalize in diff mode on a result with return code 0 creates
\* one new view, marked scratch, that holds the decoded output, when the
\* diagnostic does not contain "unchanged"; when it does, no view is created
\* and the status is "already formatted".
C12_DiffViewCreated ==
    [][DiffSuccessStep =>
          IF SaysUnchanged(ErrorMessage(inv.result.err))
          THEN /\ diff_views' = diff_views
               /\ status' = ALREADY_FORMATTED_MESSAGE
          ELSE /\ diff_views' = Append(diff_views,
                      [scratch |-> TRUE, text |-> Decode(inv.result.out).text])
               /\ status' = status
    ]_vars

\* C12 witness: a diff-mode invocation ran the formatter, which returned code
\* 0 and a diff; the last view holds the diff and is scratch.
C12_Witness ==
    /\ pc = "idle"
    /\ InDiffMode(inv.extra)
    /\ inv.runs = 1
    /\ ~inv.result.none
    /\ inv.result.returncode = 0
    /\ inv.result.out = Bytes(T.diff)
    /\ diff_views # <<>>
    /\ diff_views[Len(diff_views)] = [scratch |-> TRUE, text |-> T.diff]
    /\ view_text = inv.before

\* the daemon is enabled in the settings and the invocation is not in diff
\* mode
DaemonChosen(extra) == settings.black_use_blackd /\ ~InDiffMode(extra)

\* C13: an HTTP request is issued only by an invocation with the daemon
\* enabled and outside diff mode, a formatter process is run only by an
\* invocation in any other case, an invocation that goes on after the cache
\* check is dispatched to the daemon exactly when the daemon is enabled and
\* diff mode is not requested and to the process otherwise, and no invocation
\* calls more than one transport.
C13_TransportSelection ==
    [][/\ inv'.posts > inv.posts => DaemonChosen(inv.extra)
       /\ inv'.runs > inv.runs => ~DaemonChosen(inv.extra)
       /\ (CallStep /\ pc' # "idle") =>
              pc' = (IF DaemonChosen(inv'.extra) THEN "check_blackd" ELSE "run_black")
       /\ inv'.posts + inv'.runs <= 1
       /\ InDiffMode(inv'.extra) => inv'.posts = 0
    ]_vars

\* C13 witness: with the daemon enabled, a diff-mode invocation ran the
\* formatter process once and issued no HTTP request.
C13_Witness ==
    /\ settings.black_use_blackd
    /\ pc = "idle"
    /\ InDiffMode(inv.extra)
    /\ inv.cached = "False"
    /\ inv.runs = 1
    /\ inv.posts = 0
    /\ ~inv.result.none

\* C14: when the daemon transport was selected and the daemon is not ready,
\* at the orchestrator's check or at the adapter's own, the step issues no
\* HTTP request, the adapter returns the empty result, and the invocation
\* ends without a change of the buffer, a cache write or a deferred write.
C14_NotReadyNoRequest ==
    [][/\ (pc \in {"check_blackd", "blackd"} /\ ~blackd_started /\ pc' # pc) =>
              /\ inv'.posts = 0
              /\ pc = "check_blackd" => pc' = "idle"
              /\ pc = "blackd" => inv'.result = NoResult
              /\ view_text' = view_text
              /\ formatted_cache' = formatted_cache
              /\ deferred' = deferred
       /\ (pc = "finalize" /\ inv.result.none /\ pc' # pc) =>
              /\ pc' = "idle"
              /\ inv.posts = 0
              /\ view_text' = view_text
              /\ formatted_cache' = formatted_cache
              /\ deferred' = deferred
    ]_vars

\* C14 witness: the daemon transport was selected, the daemon was not ready
\* at the orchestrator's check, and the invocation ended without a request.
C14_Witness ==
    /\ pc = "idle"
    /\ inv.use_blackd
    /\ inv.cached = "False"
    /\ ~blackd_started
    /\ inv.posts = 0
    /\ inv.result.none
    /\ raised = "none"
    /\ dialogs # <<>>
    /\ view_text = inv.before

\* the message holds the word
HasWord(message, word) == \E i \in 1..Len(message) : message[i] = word

\* C15: the result the daemon adapter returns for a response: status 200
\* gives code 0, the body as output and a message that says "reformatted";
\* 204 gives code 0 and a message that says "unchanged"; 400 and 500 give a
\* non-zero code; every other status gives a non-zero code and a message
\* that differs from the one of 400 and 500; only 200 and 204 give code 0.
C15_StatusMapping ==
    inv.request # "none" =>
        LET code == inv.response.status_code
            res == inv.result
        IN  /\ ~res.none
            /\ res.out = inv.response.content
            /\ code = 200 => /\ res.returncode = 0
                             /\ HasWord(res.err, "reformatted")
                             /\ ~HasWord(res.err, "unchanged")
            /\ code = 204 => /\ res.returncode = 0
                             /\ HasWord(res.err, "unchanged")
            /\ code \in {400, 500} => /\ res.returncode # 0
                                       /\ res.err = MsgUnknownError
            /\ code \notin {200, 204, 400, 500} =>
                   /\ res.returncode # 0
                   /\ res.err = MsgNoValidResponse
                   /\ res.err # MsgUnknownError
            /\ res.returncode = 0 <=> code \in {200, 204}

\* C15 witness: the daemon answered with a status that is none of 200, 204,
\* 400 and 500, and the adapter returned the "no valid response" result.
C15_Witness ==
    /\ inv.request = "ok"
    /\ inv.response.status_code \notin {200, 204, 400, 500}
    /\ ~inv.result.none
    /\ inv.result.returncode # 0
    /\ inv.result.err = MsgNoValidResponse

\* the POST of the invocation raised: requests.ConnectionError, or any other
\* exception
PostFailed(i) == i.request \in {"ConnectionError", "Exception"}

\* C16: when the POST raises, no exception leaves the daemon adapter: it
\* returns a result with a non-zero code that carries the message of the
\* failure ("blackd not running on port P" for a refused connection), and
\* finalize then takes the error branch: the status is the result's message,
\* and the buffer, the cache file, the deferred writes and the diff views are
\* unchanged.
C16_PostFailureContained ==
    [][/\ (pc = "blackd" /\ pc' # pc /\ PostFailed(inv')) =>
              /\ raised' = raised
              /\ pc' = "finalize"
              /\ ~inv'.result.none
              /\ inv'.result.returncode # 0
              /\ inv'.result.out =
                     Bytes(IF inv'.request = "ConnectionError" THEN T.notRunning
                           ELSE T.requestFailed)
       /\ (FinalizeStep /\ PostFailed(inv)) =>
              /\ status' = ErrorMessage(inv.result.err)
              /\ raised' = raised
              /\ view_text' = view_text
              /\ formatted_cache' = formatted_cache
              /\ deferred' = deferred
              /\ diff_views' = diff_views
    ]_vars

\* C16 witness: the connection was refused; the invocation ended in the
\* error branch with the buffer as it was.
C16_Witness ==
    /\ pc = "idle"
    /\ inv.request = "ConnectionError"
    /\ inv.posts = 1
    /\ ~inv.result.none
    /\ inv.result.out = Bytes(T.notRunning)
    /\ status = ErrorMessage(inv.result.err)
    /\ raised = "none"
    /\ dialogs # <<>>
    /\ view_text = inv.before

\* the invocation resolved no formatter command
Unresolved(i) == i.command = List(<<>>)

Words(text) ==
    IF text.text = T.diagnostic THEN <<"Cannot", "parse:", "1:3:", "a", "=">>
    ELSE IF text.text = T.notRunning THEN <<"blackd", "not", "running", "on", "port">>
    ELSE IF text.text = T.requestFailed THEN <<"request", "failed">>
    ELSE <<>>

\* the invocation got a formatting error: the formatter process exited with
\* a non-zero code, or the daemon answered 400 or 500
FormattingError(i) ==
    /\ ~i.result.none
    /\ \/ i.runs = 1 /\ i.result.returncode # 0
       \/ i.request = "ok" /\ i.response.status_code \in {400, 500}

\* the formatter's own diagnostic of the error: the stderr of the process,
\* the body of the daemon's response
Diagnostic(i) ==
    IF i.runs = 1 THEN ErrorMessage(i.result.err)
    ELSE Words(Decode(i.response.content))

\* C18 as stated: finalize on a formatting error of either transport sets
\* the status to the formatter's diagnostic of that error and leaves the
\* buffer.
C18_Original ==
    [][(FinalizeStep /\ FormattingError(inv)) =>
          /\ status' = Diagnostic(inv)
          /\ view_text' = view_text
    ]_vars

\* the step is a call of the daemon adapter whose connection was refused
ConnectionRefusedStep ==
    pc = "blackd" /\ pc' # pc /\ inv'.request = "ConnectionError"

\* the step is a call of run_black, with a resolved command, whose process
\* could not be spawned
SpawnFailedStep ==
    /\ pc = "run_black"
    /\ pc' # pc
    /\ ~Unresolved(inv)
    /\ inv'.runs > inv.runs
    /\ inv'.result.none

\* C19 as stated: a transport failure of either kind gives a result with a
\* non-zero code that goes to finalize; no exception leaves the invocation.
C19_Original ==
    [][(ConnectionRefusedStep \/ SpawnFailedStep) =>
          /\ pc' = "finalize"
          /\ ~inv'.result.none
          /\ inv'.result.returncode # 0
          /\ raised' = raised
    ]_vars

\* C19 amended: a refused daemon connection gives a result with a non-zero
\* code that goes through finalize's branching (its error branch); a
\* formatter process that could not be spawned gives no result: the exception
\* leaves run_black and the invocation, which ends without finalize, with
\* the buffer, the cache file and the deferred writes unchanged.
C19_TransportFailure ==
    [][/\ ConnectionRefusedStep =>
              /\ pc' = "finalize"
              /\ ~inv'.result.none
              /\ inv'.result.returncode # 0
              /\ raised' = raised
       /\ (FinalizeStep /\ inv.request = "ConnectionError") =>
              FinalizeBranch(inv.result.returncode, ErrorMessage(inv.result.err),
                             inv.extra) = "failure"
       /\ (pc = "run_black" /\ pc' # pc /\ inv'.result.none) =>
              /\ pc' = "idle"
              /\ raised' \in {"OSError", "IndexError"}
              /\ view_text' = view_text
              /\ formatted_cache' = formatted_cache
              /\ deferred' = deferred
    ]_vars

\* C19 witness: the formatter process of the second invocation could not be
\* spawned; the invocation ended with OSError and without a result.
C19_Witness ==
    /\ budget.invocations = 2
    /\ pc = "idle"
    /\ ~Unresolved(inv)
    /\ inv.cached = "False"
    /\ inv.runs = 1
    /\ inv.result.none
    /\ raised = "OSError"
    /\ view_text = inv.before

\* C20: when the process of a resolved command cannot be spawned, the
\* configuration hint is shown, OSError is raised and the invocation ends
\* without a result, a change of the buffer or a cache write; when the
\* formatter runs and exits with a non-zero code, its (exit code, stdout,
\* stderr) is returned as the result, without a dialog or an exception.
C20_OperationalVsFormatting ==
    [][/\ SpawnFailedStep =>
              /\ dialogs' = Append(dialogs, InstallHint)
              /\ raised' = "OSError"
              /\ pc' = "idle"
              /\ view_text' = view_text
              /\ formatted_cache' = formatted_cache
              /\ deferred' = deferred
       /\ (pc = "run_black" /\ pc' # pc /\ ~inv'.result.none) =>
              /\ inv'.result \in ProcessResults(inv.content, inv.extra)
              /\ pc' = "finalize"
              /\ dialogs' = dialogs
              /\ raised' = raised
    ]_vars

\* C20 witness: the formatter ran and exited with a non-zero code; the
\* result reached finalize, and no dialog was shown.
C20_Witness ==
    /\ pc = "finalize"
    /\ inv.runs = 1
    /\ ~inv.result.none
    /\ inv.result.returncode # 0
    /\ inv.result.err = MsgCannotFormat
    /\ dialogs = <<>>
    /\ raised = "none"

\* ------------------------------------------------------------------------
\* Claims about folding, retries and the deferred write
\* ------------------------------------------------------------------------

\* finalize takes its standard branch: return code 0, no "unchanged" in the
\* diagnostic, no diff mode
ReformatStep ==
    /\ FinalizeStep
    /\ inv.result.returncode = 0
    /\ ~SaysUnchanged(ErrorMessage(inv.result.err))
    /\ ~InDiffMode(inv.extra)

\* the structural index of the text before and of the text after were both
\* built
BothIndexed == inv.content.text # T.nonAscii /\ inv.result.out.text # T.nonAscii

\* C23: in the reformat branch folds are re-applied only when the index of
\* the text before and the index of the text after were both built; when
\* one is missing no fold is re-applied, and in both cases the operation
\* completes: buffer replaced, selection restored, status "reformatted",
\* cache record queued, no exception.
C23_RefoldNeedsBothIndexes ==
    [][ReformatStep =>
          /\ view_state'.folds # {} => BothIndexed
          /\ (BothIndexed /\ view_state.folds # {}) => view_state'.folds # {}
          /\ view_text' = Decode(inv.result.out).text
          /\ view_state'.sel = view_state.sel
          /\ status' = REFORMATTED_MESSAGE
          /\ Len(deferred') = Len(deferred) + 1
          /\ raised' = raised
          /\ pc' = "idle"
    ]_vars

\* C23 witness: a folded buffer whose text has no index was reformatted: the
\* folds are gone, the selection is back, the status is "reformatted" and the
\* cache record is queued.
C23_Witness ==
    /\ pc = "idle"
    /\ budget.invocations = 1
    /\ ~inv.result.none
    /\ inv.content.text = T.nonAscii
    /\ inv.result.out.text = T.asciiA
    /\ view_text = T.asciiA
    /\ view_state = [folds |-> {}, sel |-> <<"cursor">>]
    /\ status = REFORMATTED_MESSAGE
    /\ deferred # <<>>

\* C24: an invocation makes at most one transport call, a subprocess run or
\* an HTTP POST; a transport call is the first of its invocation; after the
\* transport the invocation goes to finalize or ends, after finalize it ends;
\* and whatever follows an ended invocation is a new invocation, which starts
\* without a transport call.
C24_NoRetry ==
    [][/\ inv'.posts + inv'.runs <= 1
       /\ TransportStep =>
              /\ inv.posts + inv.runs = 0
              /\ pc \in {"blackd", "run_black"}
              /\ pc' \in {"finalize", "idle"}
       /\ (pc = "finalize" /\ pc' # pc) => pc' = "idle"
       /\ (pc = "idle" /\ pc' # "idle") =>
              /\ budget'.invocations = budget.invocations + 1
              /\ inv'.posts + inv'.runs = 0
    ]_vars

\* C24 witness: the first invocation ended with the daemon's error result;
\* the second invocation, a new one, made its own single POST.
C24_Witness ==
    /\ budget.invocations = 2
    /\ pc = "finalize"
    /\ status = MsgUnknownError
    /\ inv.posts = 1
    /\ inv.runs = 0

\* the deferred write of the last reformat has run and the buffer still
\* holds the reformatted text
DeferredWriteDone ==
    /\ deferred = <<>>
    /\ call.op = "add_to_cache"
    /\ call.content = Text(view_text)
    /\ call.ret # "ValueError"

\* C25: once the deferred cache write of a reformat has run, an invocation on
\* the unmodified reformatted buffer with the same command finds is_cached
\* true for the encoded buffer bytes and is Skipped.
C25_Original ==
    [][(CallStep /\ DeferredWriteDone /\ inv'.command = call.command) =>
           /\ inv'.cached = "True"
           /\ pc' = "idle"
           /\ status' = ALREADY_FORMATTED_MESSAGE_CACHE
    ]_vars

\* C29 as stated: whenever finalize runs, its return code, output and message
\* come from a transport response; the empty not-ready result of the daemon
\* adapter never reaches finalize, and finalize does not fail on it.
C29_Original ==
    /\ pc = "finalize" => (~inv.result.none /\ inv.posts + inv.runs = 1)
    /\ raised # "AttributeError"

\* the invocation that just started was Skipped
SkippedStep == CallStep /\ inv'.cached = "True"

\* finalize is running on a result that says "unchanged" with return code 0
UnchangedResult ==
    /\ pc = "finalize"
    /\ ~inv.result.none
    /\ inv.result.returncode = 0
    /\ SaysUnchanged(ErrorMessage(inv.result.err))

\* finalize is running on a reformatted result outside diff mode
ReformattedResult ==
    /\ pc = "finalize"
    /\ ~inv.result.none
    /\ inv.result.returncode = 0
    /\ ~SaysUnchanged(ErrorMessage(inv.result.err))
    /\ ~InDiffMode(inv.extra)

\* every cache write is one of the two sanctioned ones: finalize records the
\* content it sent when the result says unchanged, and the deferred callback
\* records what a reformat queued; a callback is queued only by a reformat
\* and holds the reformatted output and the command of that invocation
OnlySanctionedWrites ==
    /\ (recorded' # recorded \/ formatted_cache' # formatted_cache) =>
           \/ /\ UnchangedResult
              /\ recorded' = recorded \cup {<<inv.content, inv.command>>}
           \/ /\ deferred # <<>>
              /\ deferred' = Tail(deferred)
              /\ pc' = pc
              /\ recorded' =
                     recorded \cup {<<Head(deferred).content, Head(deferred).command>>}
    /\ Len(deferred') > Len(deferred) =>
           /\ ReformattedResult
           /\ deferred' = Append(deferred, [content |-> Decode(inv.result.out),
                                            command |-> inv.command])

\* C30 as stated: an invocation is Skipped for (content, command) only if an
\* earlier invocation with that command found that content unchanged or
\* produced it as its reformatted output; nothing else writes the cache.
C30_Original ==
    [][/\ SkippedStep =>
              \E p \in recorded :
                  /\ p[1].text = inv'.content.text
                  /\ p[2] = inv'.command
       /\ OnlySanctionedWrites
    ]_vars

\* C30 amended: an invocation is Skipped for (content, command) only if an
\* earlier invocation with that command found unchanged, or produced as its
\* reformatted output, a content with the fingerprint of that content;
\* nothing else writes the cache (not the error branch, the diff branch, the
\* Skipped path or the not-ready path).
C30_SkippedOnlyForRecordedFingerprint ==
    [][/\ SkippedStep =>
              \E p \in recorded :
                  /\ hash(p[1]) = hash(inv'.content)
                  /\ p[2] = inv'.command
       /\ OnlySanctionedWrites
    ]_vars

\* C30 witness: the second invocation was Skipped on the text the first one
\* produced, after the deferred callback had recorded it.
C30_Witness ==
    /\ budget.invocations = 2
    /\ pc = "idle"
    /\ inv.cached = "True"
    /\ status = ALREADY_FORMATTED_MESSAGE_CACHE
    /\ call.op = "add_to_cache"
    /\ call.content.form = "str"
    /\ Encode(call.content) = inv.content
    /\ call.command = inv.command

\* ------------------------------------------------------------------------
\* The command builder: Black.get_black_command and Blackd.format_headers
\* ------------------------------------------------------------------------

\* tokens of a command line
OptLineLength == <<"-", "l">>

OptFast == <<"-", "-", "f", "a", "s", "t">>

OptSkip == <<"-", "-", "s", "k", "i", "p", "-", "s", "t", "r", "i", "n", "g", "-", "n", "o", "r", "m", "a", "l", "i", "z", "a", "t", "i", "o", "n">>

OptPyi == <<"-", "-", "p", "y", "i">>

OptPy36 == <<"-", "-", "p", "y", "3", "6">>

OptTarget == <<"-", "-", "t", "a", "r", "g", "e", "t", "-", "v", "e", "r", "s", "i", "o", "n">>

\* the values of black_target_version: py36, py37, py310
Py36 == <<"p", "y", "3", "6">>

Py37 == <<"p", "y", "3", "7">>

Py310 == <<"p", "y", "3", "1", "0">>

\* the file names of a view: none, a module, a stub
NoFile == <<>>

Filenames == {NoFile, <<"a", ".", "p", "y">>, <<"a", ".", "p", "y", "i">>}

\* filename and filename.endswith(".pyi")
IsStub(filename) ==
    /\ Len(filename) >= 4
    /\ SubSeq(filename, Len(filename) - 3, Len(filename)) = <<".", "p", "y", "i">>

\* item in command
InCommand(command, item) == \E i \in 1..Len(command) : command[i] = item

\* command.index(item)
IndexOf(command, item) == SetMin({i \in 1..Len(command) : command[i] = item})

\* a dict: a function from the keys it holds to their values
EmptyDict == [k \in {} |-> <<>>]

\* headers.update(other)
DictUpdate(headers, other) ==
    [k \in DOMAIN headers \cup DOMAIN other |->
         IF k \in DOMAIN other THEN other[k] ELSE headers[k]]

\* headers[key] = value
DictSet(headers, key, value) ==
    [k \in DOMAIN headers \cup {key} |-> IF k = key THEN value ELSE headers[k]]

\* consts.HEADERS_TABLE, for the flags that are neither line length nor
\* target version: the headers of an item, none for an item not in the table
HEADERS_TABLE(item) ==
    IF item = OptFast THEN [k \in {"X-Fast-Or-Safe"} |-> <<"f", "a", "s", "t">>]
    ELSE IF item = OptSkip THEN [k \in {"X-Skip-String-Normalization"} |-> <<"1">>]
    ELSE EmptyDict

\* the headers of the items of command[1..n] that are in consts.HEADERS_TABLE
\* (lines 66-70)
RECURSIVE TableHeaders(_, _)
TableHeaders(command, n) ==
    IF n = 0 THEN EmptyDict
    ELSE DictUpdate(TableHeaders(command, n - 1), HEADERS_TABLE(command[n]))

\* line 86, mutated: the version is passed on as it is
Variant_Plain(version) == version

\* line 86: f"{version[:-1]}.{version[-1]}"
Variant(version) ==
    SubSeq(version, 1, Len(version) - 1) \o <<".">> \o <<version[Len(version)]>>

\* the tokens that follow a "--target-version" (lines 81-85)
TargetVersions(command) ==
    {command[i + 1] : i \in {j \in 1..(Len(command) - 1) : command[j] = OptTarget}}

\* the orders in which the elements of a set may be iterated
Orders(S) ==
    {o \in [1..Cardinality(S) -> S] :
         \A i, j \in 1..Cardinality(S) : o[i] = o[j] => i = j}

\* ",".join(items)
RECURSIVE JoinComma(_)
JoinComma(items) ==
    IF items = <<>> THEN <<>>
    ELSE IF Len(items) = 1 THEN items[1]
    ELSE items[1] \o <<",">> \o JoinComma(Tail(items))

\* lines 72-73: headers["X-Line-Length"] = command[command.index("-l") + 1]
LineLengthHeader(command, headers) ==
    IF InCommand(command, OptLineLength)
    THEN DictSet(headers, "X-Line-Length", command[IndexOf(command, OptLineLength) + 1])
    ELSE headers

\* Blackd.format_headers(command) for a view with that file name; order is
\* the order in which the set of targets is iterated by ",".join.  An
\* option without the token it needs ends the call with IndexError.
format_headers(command, filename, order) ==
    IF \/ InCommand(command, OptLineLength)
          /\ IndexOf(command, OptLineLength) = Len(command)
       \/ ~IsStub(filename) /\ command # <<>> /\ command[Len(command)] = OptTarget
    THEN [raised |-> "IndexError", headers |-> EmptyDict]
    ELSE LET table == TableHeaders(command, Len(command))
             length == LineLengthHeader(command, table)
             targets == {Variant(v) : v \in TargetVersions(command)}
             variant ==
                 IF IsStub(filename)
                 THEN DictSet(length, "X-Python-Variant", <<"p", "y", "i">>)
                 ELSE IF targets # {}
                 THEN DictSet(length, "X-Python-Variant",
                              JoinComma([i \in 1..Cardinality(targets) |-> order[i]]))
                 ELSE length
             diff == IF InCommand(command, DiffFlag)
                     THEN DictSet(variant, "X-Diff", <<"t", "r", "u", "e">>)
                     ELSE variant
         IN  [raised |-> "none", headers |-> diff]

\* the settings get_black_command reads; a line length of 0 is one that is
\* not set
BuilderSettings ==
    [black_command : {"black", ""},
     black_line_length : {0, 25, 100},
     black_fast : BOOLEAN,
     black_skip_string_normalization : BOOLEAN,
     black_py36 : BOOLEAN,
     black_target_version : {<<>>, <<Py36>>, <<Py37>>, <<Py36, Py37>>,
                             <<Py37, Py37>>, <<Py310>>}]

\* ("--target-version", v) for every v of black_target_version (lines 220-222)
RECURSIVE TargetOptions(_)
TargetOptions(versions) ==
    IF versions = <<>> THEN <<>>
    ELSE <<OptTarget, versions[1]>> \o TargetOptions(Tail(versions))

\* lines 197-200, mutated: the option is emitted whether the setting is set
\* or not
LineLengthOption_Always(black_line_length) ==
    <<OptLineLength, IntStr(black_line_length)>>

\* lines 197-200: ("-l", str(black_line_length)) when the setting is set
LineLengthOption(black_line_length) ==
    IF black_line_length # 0 THEN <<OptLineLength, IntStr(black_line_length)>>
    ELSE <<>>

\* Black.get_black_command(extra) for a view with that file name
get_black_command(config, filename, extra) ==
    LET black_command == get_full_black_command(config, FALSE, extra).toks
    IN  IF black_command = <<>>
        THEN [raised |-> "Exception", command |-> <<>>]
        ELSE [raised |-> "none",
              command |->
                  black_command
                      \o extra
                      \o LineLengthOption(config.black_line_length)
                      \o (IF config.black_fast THEN <<OptFast>> ELSE <<>>)
                      \o (IF config.black_skip_string_normalization
                          THEN <<OptSkip>> ELSE <<>>)
                      \o (IF IsStub(filename) THEN <<OptPyi>> ELSE <<>>)
                      \o (IF config.black_py36 THEN <<OptPy36>> ELSE <<>>)
                      \o TargetOptions(config.black_target_version)]

\* the command builder under test: a command is built from the settings, and
\* the headers of the daemon are formatted from that command
BuildCommand ==
    /\ call.op = "none"
    /\ \E config \in BuilderSettings, filename \in Filenames, extra \in Extras :
           LET r == get_black_command(config, filename, extra)
           IN  call' = [op |-> "get_black_command", config |-> config,
                        filename |-> filename, extra |-> extra,
                        raised |-> r.raised, command |-> r.command]
    /\ UNCHANGED <<formatted_cache, recorded, inserted, fills, frees, orchVars>>

FormatHeaders ==
    /\ call.op = "get_black_command"
    /\ call.raised = "none"
    /\ \E order \in Orders({Variant(v) : v \in TargetVersions(call.command)}) :
           LET r == format_headers(call.command, call.filename, order)
           IN  call' = [op |-> "format_headers", config |-> call.config,
                        filename |-> call.filename, extra |-> call.extra,
                        raised |-> r.raised, command |-> call.command,
                        headers |-> r.headers]
    /\ UNCHANGED <<formatted_cache, recorded, inserted, fills, frees, orchVars>>

NextBuilder == BuildCommand \/ FormatHeaders

SpecBuilder == InitCache /\ [][NextBuilder]_vars

\* ------------------------------------------------------------------------
\* Claims about the command builder, checked under SpecBuilder
\* ------------------------------------------------------------------------

\* the headers of a command were formatted
HeadersFormatted == call.op = "format_headers" /\ call.raised = "none"

\* s.split(",")
RECURSIVE SplitComma(_)
SplitComma(s) ==
    LET at == {i \in 1..Len(s) : s[i] = ","}
    IN  IF at = {} THEN <<s>>
        ELSE <<SubSeq(s, 1, SetMin(at) - 1)>>
                 \o SplitComma(SubSeq(s, SetMin(at) + 1, Len(s)))

\* the rendering 'pyX.Y' of a version tag 'pyXY'
Dotted(version) == <<version[1], version[2], version[3], ".", version[4]>>

CommandBuilt == call.op \in {"get_black_command", "format_headers"} /\ call.raised = "none"

\* str() of the line lengths of BuilderSettings
LengthText(n) == IF n = 25 THEN <<"2", "5">> ELSE <<"1", "0", "0">>

\* C22: the command holds '-l' exactly when the line-length setting is set,
\* once, followed at once by the value as a string; the headers hold
\* X-Line-Length exactly when '-l' is in the command, with the value of the
\* token next to '-l'.
C22_LineLength ==
    /\ CommandBuilt =>
          LET command == call.command
              at == {i \in 1..Len(command) : command[i] = OptLineLength}
          IN  /\ (at # {}) <=> (call.config.black_line_length # 0)
              /\ at # {} =>
                    /\ Cardinality(at) = 1
                    /\ SetMin(at) < Len(command)
                    /\ command[SetMin(at) + 1] = LengthText(call.config.black_line_length)
    /\ HeadersFormatted =>
          LET command == call.command
              at == {i \in 1..Len(command) : command[i] = OptLineLength}
          IN  /\ ("X-Line-Length" \in DOMAIN call.headers) <=> (at # {})
              /\ at # {} => call.headers["X-Line-Length"] = command[SetMin(at) + 1]

\* C22 witness: the line length is set to 100: the command holds '-l',
\* '100' and the header X-Line-Length is '100'.
C22_Witness ==
    /\ HeadersFormatted
    /\ call.config.black_line_length = 100
    /\ InCommand(call.command, OptLineLength)
    /\ "X-Line-Length" \in DOMAIN call.headers
    /\ call.headers["X-Line-Length"] = <<"1", "0", "0">>

====
